---- MODULE Spec2Model ----
(***************************************************************************)
(* Verification model of hidenorly/PyGitUtil.                              *)
(*                                                                         *)
(*   Spec         list-merge-conflict.py main(): the merge-replay run      *)
(*                over a repository (head, temp-branch, merge state,       *)
(*                stash), every git command being able to fail.            *)
(*   RunSpec      GitUtil.run_git_command as a function of the process     *)
(*                result (exit status, stdout, stderr).                    *)
(*   PatchSpec    merge_conflict_extractor_with_format_patch.py main()     *)
(*                and apply_patch / abort_patch.                           *)
(*   ExtractSpec  the conflict-marker scanners and margin expansion of     *)
(*                the four scripts, applied to bounded files.              *)
(*                                                                         *)
(* Python indices are kept 0-based: At(s, i) is s[i] of the source.        *)
(***************************************************************************)
EXTENDS Integers, Sequences, FiniteSets, TLC

VARIABLES
    \* ---- the repository seen by list-merge-conflict.py ----
    head,          \* what is checked out: "branch", "detached" (current_head), "temp"
    tempBranch,    \* the branch temp-branch exists
    merging,       \* a merge is in progress (MERGE_HEAD exists)
    unmerged,      \* paths in the unmerged ("UU") state
    wt,            \* working tree: "clean", "tracked" (modified tracked files), "untracked"
    stash,         \* the stash list, top first: entries "user" (older) or "temp" (this run's)
    \* ---- main() of list-merge-conflict.py ----
    pc,            \* position in main()
    nMerges,       \* len(merge_commits)
    idx,           \* number of merge commits the for loop has taken so far
    stash_needed,  \* the local stash_needed
    created,       \* create_temp_branch succeeded in the current iteration
    mergeOutcome,  \* how git merge ended in the current iteration
    processed,     \* conflict files read (printed) in the current iteration
    faults,        \* steps of the current iteration whose command failed
    exc,           \* the exception propagating out of the loop ("none" or the step)
    reported,      \* what the outer except printed ("none" or the step)
    innerPrinted,  \* the inner except printed "Error during merge" in this iteration
    popRuns,       \* executions of git stash pop
    coBranchRuns,  \* executions of git checkout <current_branch>
    poppedEntry,   \* the stash entry the run popped ("none" when none)
    \* ---- GitUtil.run_git_command ----
    rg_pc, rg_command, rg_combine, rg_proc, rg_result, rg_error, rg_runs,
    \* ---- patch-sequence main() and apply_patch ----
    pm_pc,         \* position in main() / apply_patch()
    pm_n,          \* len(patch_files)
    pm_idx,        \* number of patches the for loop has taken so far
    amSession,     \* a git am session is in progress in the target repository
    tree,          \* working tree against HEAD: "clean", "partial", "applied"
    committed,     \* patches git am has committed
    amTimedOut,    \* git am timed out in the current apply_patch call
    attempts,      \* application commands run by the current apply_patch call
    ap_result,     \* the local result of apply_patch
    pm_crash,      \* the exception that ended main() ("none" when none)
    \* ---- the scanners ----
    ex_pc, content, margin_lines, fp_sections, fp_pairs, emc_pairs, emc_sections,
    solver_pairs,
    \* ---- lines 226-228 of the patch-sequence main(): one conflict file ----
    ms_pc,         \* position: "extract", "resolve", "output" or "crashed"
    ms_content,    \* the lines of the conflicted file
    ms_margin,     \* margin_lines
    ms_reference,  \* the lines of the file in the resolved repository
    ms_sections,   \* conflict_sections
    ms_pairs,      \* the [start, end] marker lines of each section
    ms_ranges,     \* the [start, end) slice bounds of each section
    ms_raised,     \* the exception get_resolved_contents raised ("none" when none)
    ms_resolved,   \* resolved_contents
    \* ---- get_match_position ----
    mp_pc, source_lines, target_lines, mp_result,
    \* ---- output_conflict ----
    out_pc,        \* "call", "returned" or "raised"
    out_file,      \* what has been written to the dataset file
    out_sections,  \* the argument conflict_sections
    out_resolved,  \* the argument resolved_contents
    \* ---- the patch sequencing of main() ----
    sq_pc,         \* "glob" or "sorted"
    patch_dir,     \* the patch files found, in glob order
    patch_files    \* the application order built

replayVars == <<head, tempBranch, merging, unmerged, wt, stash, pc, nMerges, idx,
                stash_needed, created, mergeOutcome, processed, faults, exc,
                reported, innerPrinted, popRuns, coBranchRuns, poppedEntry>>
runVars == <<rg_pc, rg_command, rg_combine, rg_proc, rg_result, rg_error, rg_runs>>
patchVars == <<pm_pc, pm_n, pm_idx, amSession, tree, committed, amTimedOut, attempts,
               ap_result, pm_crash>>
extractVars == <<ex_pc, content, margin_lines, fp_sections, fp_pairs, emc_pairs,
                 emc_sections, solver_pairs>>
mineVars == <<ms_pc, ms_content, ms_margin, ms_reference, ms_sections, ms_pairs,
              ms_ranges, ms_raised, ms_resolved>>
matchVars == <<mp_pc, source_lines, target_lines, mp_result>>
outVars == <<out_pc, out_file, out_sections, out_resolved>>
seqVars == <<sq_pc, patch_dir, patch_files>>
vars == <<replayVars, runVars, patchVars, extractVars, mineVars, matchVars, outVars,
          seqVars>>

(***************************************************************************)
(* Bounds of the model.                                                    *)
(***************************************************************************)
MaxMerges == 2      \* merge commits in the history
MaxText == 2        \* characters of a captured stdout / stderr
MaxPatches == 2     \* patches in the sequence
MaxLen == 4         \* lines of a scanned file
MaxMargin == 2      \* requested margin
MaxMineLen == 5     \* lines of a conflicted file in the mining of one file
MaxRefLen == 3      \* lines of the resolved reference file
MaxSource == 6      \* source lines given to get_match_position
MaxTarget == 2      \* target lines given to get_match_position
MaxStamp == 2       \* distinct timestamps a Date line can carry
MaxBody == 1        \* lines of a patch after its mail header
MaxOutSections == 2 \* sections handed to one output_conflict call
MaxWrites == 12     \* writes the dataset file holds before the calls stop

Files == {"f1", "f2"}

\* Python's None, for variables that otherwise hold a line index.
None == -1

(***************************************************************************)
(* Helpers.                                                                *)
(***************************************************************************)
\* s[i] with Python's 0-based index.
At(s, i) == s[i + 1]

\* s[a:b] of Python for 0 <= a, b <= len(s): the elements a .. b-1.
Slice(s, a, b) == IF b <= a THEN <<>> ELSE SubSeq(s, a + 1, b)

Max(a, b) == IF a >= b THEN a ELSE b
Min(a, b) == IF a <= b THEN a ELSE b

\* The order in which git status lists paths.
FileOrder == <<"f1", "f2">>

RECURSIVE FilterSeq(_, _)
FilterSeq(s, S) ==
    IF s = <<>> THEN <<>>
    ELSE IF Head(s) \in S THEN <<Head(s)>> \o FilterSeq(Tail(s), S)
    ELSE FilterSeq(Tail(s), S)

(***************************************************************************)
(* GitUtil.run_git_command: the exit status decides between raise and      *)
(* return.                                                                 *)
(***************************************************************************)
CommandFailedOnlyAbove1(returncode) == returncode > 1

CommandFailed(returncode) == returncode # 0

(***************************************************************************)
(* list-merge-conflict.py main().                                          *)
(***************************************************************************)
ReplayFrame ==
    UNCHANGED <<runVars, patchVars, extractVars, mineVars, matchVars, outVars, seqVars>>

ReplayInit ==
    /\ head = "branch"
    /\ tempBranch = FALSE
    /\ merging = FALSE
    /\ unmerged = {}
    /\ wt \in {"clean", "tracked", "untracked"}
    /\ stash \in {<<>>, <<"user">>}
    /\ pc = "capture"
    /\ nMerges \in 0..MaxMerges
    /\ idx = 0
    /\ stash_needed = FALSE
    /\ created = FALSE
    /\ mergeOutcome = "none"
    /\ processed = {}
    /\ faults = {}
    /\ exc = "none"
    /\ reported = "none"
    /\ innerPrinted = FALSE
    /\ popRuns = 0
    /\ coBranchRuns = 0
    /\ poppedEntry = "none"

\* An exception leaving the for loop: control goes to the outer finally.
Raise(step) ==
    /\ exc' = step
    /\ pc' = "finally"

\* Lines 122-124: get_current_head, get_current_branch, get_merge_commits. They are
\* outside the inner try: a failure goes straight to the outer except.
Capture ==
    /\ pc = "capture"
    /\ \E ok \in BOOLEAN :
        IF ok THEN pc' = "status" /\ reported' = reported
        ELSE pc' = "done" /\ reported' = "capture"
    /\ UNCHANGED <<head, tempBranch, merging, unmerged, wt, stash, nMerges, idx,
                   stash_needed, created, mergeOutcome, processed, faults, exc,
                   innerPrinted, popRuns, coBranchRuns, poppedEntry>>
    /\ ReplayFrame

\* Lines 130-131: if GitUtil.get_status(): stash_needed = True.
GetStatus ==
    /\ pc = "status"
    /\ \E ok \in BOOLEAN :
        IF ok
        THEN /\ stash_needed' = (wt # "clean")
             /\ pc' = IF wt # "clean" THEN "stash" ELSE "loop"
             /\ exc' = exc
        ELSE /\ stash_needed' = stash_needed
             /\ Raise("status")
    /\ UNCHANGED <<head, tempBranch, merging, unmerged, wt, stash, nMerges, idx,
                   created, mergeOutcome, processed, faults, reported,
                   innerPrinted, popRuns, coBranchRuns, poppedEntry>>
    /\ ReplayFrame

\* Line 132: git stash push. With only untracked files git answers "No local changes
\* to save" with exit status 0 and pushes nothing.
StashChanges ==
    /\ pc = "stash"
    /\ \E ok \in BOOLEAN :
        IF ok
        THEN /\ stash' = IF wt = "tracked" THEN <<"temp">> \o stash ELSE stash
             /\ wt' = IF wt = "tracked" THEN "clean" ELSE wt
             /\ pc' = "loop"
             /\ exc' = exc
        ELSE /\ UNCHANGED <<stash, wt>>
             /\ Raise("stash")
    /\ UNCHANGED <<head, tempBranch, merging, unmerged, nMerges, idx, stash_needed,
                   created, mergeOutcome, processed, faults, reported,
                   innerPrinted, popRuns, coBranchRuns, poppedEntry>>
    /\ ReplayFrame

\* Line 134: for merge_commit in merge_commits.
LoopHead ==
    /\ pc = "loop"
    /\ IF idx < nMerges
       THEN /\ idx' = idx + 1
            /\ pc' = "parents"
            /\ created' = FALSE
            /\ mergeOutcome' = "none"
            /\ processed' = {}
            /\ faults' = {}
            /\ innerPrinted' = FALSE
       ELSE /\ pc' = "finally"
            /\ UNCHANGED <<idx, created, mergeOutcome, processed, faults, innerPrinted>>
    /\ UNCHANGED <<head, tempBranch, merging, unmerged, wt, stash, nMerges,
                   stash_needed, exc, reported, popRuns, coBranchRuns, poppedEntry>>
    /\ ReplayFrame

\* Lines 135-136: get_commit_parents, outside the inner try.
GetParents ==
    /\ pc = "parents"
    /\ \E ok \in BOOLEAN :
        IF ok THEN pc' = "create" /\ exc' = exc /\ faults' = faults
        ELSE Raise("parents") /\ faults' = faults \cup {"parents"}
    /\ UNCHANGED <<head, tempBranch, merging, unmerged, wt, stash, nMerges, idx,
                   stash_needed, created, mergeOutcome, processed, reported,
                   innerPrinted, popRuns, coBranchRuns, poppedEntry>>
    /\ ReplayFrame

\* Line 139: git checkout -b temp-branch, outside the inner try. git refuses when
\* the branch exists.
CreateTempBranch ==
    /\ pc = "create"
    /\ \E ok \in (IF tempBranch THEN {FALSE} ELSE BOOLEAN) :
        IF ok
        THEN /\ head' = "temp"
             /\ tempBranch' = TRUE
             /\ created' = TRUE
             /\ pc' = "reset"
             /\ UNCHANGED <<exc, faults>>
        ELSE /\ UNCHANGED <<head, tempBranch, created>>
             /\ faults' = faults \cup {"create"}
             /\ Raise("create")
    /\ UNCHANGED <<merging, unmerged, wt, stash, nMerges, idx, stash_needed,
                   mergeOutcome, processed, reported, innerPrinted, popRuns,
                   coBranchRuns, poppedEntry>>
    /\ ReplayFrame

\* Line 140: git reset --hard <parent1>, outside the inner try.
ResetHard ==
    /\ pc = "reset"
    /\ \E ok \in BOOLEAN :
        IF ok THEN pc' = "merge" /\ UNCHANGED <<exc, faults>>
        ELSE faults' = faults \cup {"reset"} /\ Raise("reset")
    /\ UNCHANGED <<head, tempBranch, merging, unmerged, wt, stash, nMerges, idx,
                   stash_needed, created, mergeOutcome, processed, reported,
                   innerPrinted, popRuns, coBranchRuns, poppedEntry>>
    /\ ReplayFrame

\* What git merge <parent2> --no-commit --no-ff can do, and its exit status:
\*   clean     merged automatically, stopped before committing (merge in progress)
\*   uptodate  nothing to merge
\*   conflict  content conflict: unmerged paths, merge in progress
\*   error     the merge could not start (unknown commit, unrelated histories)
MergeOutcomes == {"clean", "uptodate", "conflict", "error"}

MergeExitStatus(outcome) ==
    CASE outcome = "clean" -> 0
      [] outcome = "uptodate" -> 0
      [] outcome = "conflict" -> 1
      [] outcome = "error" -> 128

\* conflict_files of get_conflict_files(): the "UU " lines of git status.
ConflictFiles(U) == FilterSeq(FileOrder, U)

\* Lines 142-146 with 158-159: GitUtil.merge_no_commit through run_git_command. A
\* nonzero exit status raises, the inner except prints and the finally follows.
MergeNoCommit ==
    /\ pc = "merge"
    /\ \E outcome \in MergeOutcomes :
       \E U \in (IF outcome = "conflict" THEN (SUBSET Files) \ {{}} ELSE {{}}) :
        /\ mergeOutcome' = outcome
        /\ merging' = (outcome \in {"clean", "conflict"})
        /\ unmerged' = U
        /\ IF CommandFailed(MergeExitStatus(outcome))
           THEN /\ innerPrinted' = TRUE
                /\ faults' = faults \cup {"merge"}
                /\ pc' = "abort"
           ELSE /\ UNCHANGED <<innerPrinted, faults>>
                /\ pc' = "list"
    /\ UNCHANGED <<head, tempBranch, wt, stash, nMerges, idx, stash_needed, created,
                   processed, exc, reported, popRuns, coBranchRuns, poppedEntry>>
    /\ ReplayFrame

\* Lines 149-156: get_conflict_files, then get_file_content of each conflict file in
\* turn. git status or the reading of the k-th file may fail; the inner except
\* prints and the finally follows in every case.
ListAndRead ==
    /\ pc = "list"
    /\ \E ok \in BOOLEAN :
        IF ok
        THEN \E k \in 0..Len(ConflictFiles(unmerged)) :
                /\ processed' = {At(ConflictFiles(unmerged), i) : i \in 0..(k - 1)}
                /\ IF k < Len(ConflictFiles(unmerged))
                   THEN innerPrinted' = TRUE /\ faults' = faults \cup {"read"}
                   ELSE UNCHANGED <<innerPrinted, faults>>
        ELSE /\ innerPrinted' = TRUE
             /\ faults' = faults \cup {"list"}
             /\ processed' = processed
    /\ pc' = "abort"
    /\ UNCHANGED <<head, tempBranch, merging, unmerged, wt, stash, nMerges, idx,
                   stash_needed, created, mergeOutcome, exc, reported, popRuns,
                   coBranchRuns, poppedEntry>>
    /\ ReplayFrame

\* Lines 162-165: git merge --abort, its exception swallowed. Without a merge in
\* progress git fails ("There is no merge to abort").
AbortMerge ==
    /\ pc = "abort"
    /\ \E ok \in (IF merging THEN BOOLEAN ELSE {FALSE}) :
        IF ok
        THEN merging' = FALSE /\ unmerged' = {} /\ faults' = faults
        ELSE /\ UNCHANGED <<merging, unmerged>>
             /\ faults' = IF merging THEN faults \cup {"abort"} ELSE faults
    /\ pc' = "co_commit"
    /\ UNCHANGED <<head, tempBranch, wt, stash, nMerges, idx, stash_needed, created,
                   mergeOutcome, processed, exc, reported, innerPrinted, popRuns,
                   coBranchRuns, poppedEntry>>
    /\ ReplayFrame

\* Line 167: git checkout <current_head>, inside the finally and unguarded. git
\* refuses to switch while paths are unmerged; a switch drops the state of a merge
\* that was left in progress.
CheckoutCommit ==
    /\ pc = "co_commit"
    /\ \E ok \in (IF unmerged # {} THEN {FALSE} ELSE BOOLEAN) :
        IF ok
        THEN /\ head' = "detached"
             /\ merging' = FALSE
             /\ pc' = "delete"
             /\ UNCHANGED <<exc, faults>>
        ELSE /\ UNCHANGED <<head, merging>>
             /\ faults' = faults \cup {"co_commit"}
             /\ Raise("co_commit")
    /\ UNCHANGED <<tempBranch, unmerged, wt, stash, nMerges, idx,
                   stash_needed, created, mergeOutcome, processed, reported,
                   innerPrinted, popRuns, coBranchRuns, poppedEntry>>
    /\ ReplayFrame

\* Line 168: git branch -D temp-branch. git refuses to delete a missing branch and
\* the branch that is checked out.
DeleteBranch ==
    /\ pc = "delete"
    /\ \E ok \in (IF tempBranch /\ head # "temp" THEN BOOLEAN ELSE {FALSE}) :
        IF ok
        THEN tempBranch' = FALSE /\ pc' = "loop" /\ UNCHANGED <<exc, faults>>
        ELSE tempBranch' = tempBranch /\ faults' = faults \cup {"delete"} /\ Raise("delete")
    /\ UNCHANGED <<head, merging, unmerged, wt, stash, nMerges, idx, stash_needed,
                   created, mergeOutcome, processed, reported, innerPrinted, popRuns,
                   coBranchRuns, poppedEntry>>
    /\ ReplayFrame

\* Lines 172-173 (and 177-178 when it raises): if stash_needed: git stash pop. git
\* fails when the stash list is empty. An exception here leaves the finally at once:
\* line 175 is not executed, and the outer except prints the pop's error.
PopStash ==
    /\ pc = "finally"
    /\ stash_needed
    /\ popRuns' = popRuns + 1
    /\ \E ok \in (IF stash = <<>> THEN {FALSE} ELSE BOOLEAN) :
        IF ok
        THEN /\ poppedEntry' = Head(stash)
             /\ stash' = Tail(stash)
             /\ wt' = "tracked"
             /\ pc' = "co_branch"
             /\ UNCHANGED <<exc, reported>>
        ELSE /\ UNCHANGED <<poppedEntry, stash, wt>>
             /\ exc' = "pop"
             /\ reported' = "pop"
             /\ pc' = "done"
    /\ UNCHANGED <<head, tempBranch, merging, unmerged, nMerges, idx, stash_needed,
                   created, mergeOutcome, processed, faults, innerPrinted,
                   coBranchRuns>>
    /\ ReplayFrame

\* Line 175 (and 177-178): git checkout <current_branch>; then the exception that
\* was propagating, or this command's own, reaches the outer except and is printed.
CheckoutBranch ==
    /\ \/ pc = "finally" /\ ~stash_needed
       \/ pc = "co_branch"
    /\ coBranchRuns' = coBranchRuns + 1
    /\ \E ok \in (IF unmerged # {} THEN {FALSE} ELSE BOOLEAN) :
        IF ok
        THEN head' = "branch" /\ merging' = FALSE /\ reported' = exc /\ exc' = exc
        ELSE /\ UNCHANGED <<head, merging>>
             /\ reported' = "co_branch"
             /\ exc' = "co_branch"
    /\ pc' = "done"
    /\ UNCHANGED <<tempBranch, unmerged, wt, stash, nMerges, idx,
                   stash_needed, created, mergeOutcome, processed, faults,
                   innerPrinted, popRuns, poppedEntry>>
    /\ ReplayFrame

ReplayNext ==
    \/ Capture
    \/ GetStatus
    \/ StashChanges
    \/ LoopHead
    \/ GetParents
    \/ CreateTempBranch
    \/ ResetHard
    \/ MergeNoCommit
    \/ ListAndRead
    \/ AbortMerge
    \/ CheckoutCommit
    \/ DeleteBranch
    \/ PopStash
    \/ CheckoutBranch

(***************************************************************************)
(* GitUtil.run_git_command(command, combineStdErr) over the result of      *)
(* subprocess.run. A text is a sequence of characters; " " stands for      *)
(* whitespace (git ends its output with a newline).                        *)
(***************************************************************************)
Chars == {" ", "x"}

Texts == UNION {[1..n -> Chars] : n \in 0..MaxText}

Commands == {"merge", "status"}

ExitStatuses == {0, 1, 128}

\* str.strip(): leading and trailing whitespace removed.
RECURSIVE LStrip(_)
LStrip(t) == IF t # <<>> /\ Head(t) = " " THEN LStrip(Tail(t)) ELSE t

RECURSIVE RStrip(_)
RStrip(t) ==
    IF t # <<>> /\ t[Len(t)] = " " THEN RStrip(SubSeq(t, 1, Len(t) - 1)) ELSE t

Strip(t) == RStrip(LStrip(t))

\* What a call that raised hands back: nothing.
NoOutput == <<"no output">>
NoError == [command |-> "none", text |-> <<>>]

\* Lines 21-29. error_result is assigned only on the raising path; on the returning
\* path it is still "" when combineStdErr appends it.
RunGitCommand(command, combineStdErr, proc) ==
    LET error_result == IF CommandFailed(proc.returncode) THEN Strip(proc.stderr) ELSE <<>>
    IN  IF CommandFailed(proc.returncode)
        THEN [raised |-> TRUE, result |-> NoOutput,
              error |-> [command |-> command, text |-> error_result]]
        ELSE [raised |-> FALSE,
              result |-> IF combineStdErr THEN Strip(proc.stdout) \o error_result
                         ELSE Strip(proc.stdout),
              error |-> NoError]

RunFrame ==
    UNCHANGED <<replayVars, patchVars, extractVars, mineVars, matchVars, outVars, seqVars>>

RunInit ==
    /\ rg_pc = "idle"
    /\ rg_command = "none"
    /\ rg_combine = FALSE
    /\ rg_proc = [returncode |-> 0, stdout |-> <<>>, stderr |-> <<>>]
    /\ rg_result = NoOutput
    /\ rg_error = NoError
    /\ rg_runs = 0

\* A caller invokes run_git_command; the process will end as rg_proc says.
RgCall ==
    /\ rg_pc = "idle"
    /\ rg_pc' = "call"
    /\ rg_command' \in Commands
    /\ rg_combine' \in BOOLEAN
    /\ \E rc \in ExitStatuses, out \in Texts, err \in Texts :
        rg_proc' = [returncode |-> rc, stdout |-> out, stderr |-> err]
    /\ UNCHANGED <<rg_result, rg_error, rg_runs>>
    /\ RunFrame

\* The body of run_git_command: subprocess.run once, then raise or return.
RgRun ==
    /\ rg_pc = "call"
    /\ rg_runs' = rg_runs + 1
    /\ LET r == RunGitCommand(rg_command, rg_combine, rg_proc)
       IN  /\ rg_pc' = IF r.raised THEN "raised" ELSE "returned"
           /\ rg_result' = r.result
           /\ rg_error' = r.error
    /\ UNCHANGED <<rg_command, rg_combine, rg_proc>>
    /\ RunFrame

RunNext == RgCall \/ RgRun

(***************************************************************************)
(* merge_conflict_extractor_with_format_patch.py: apply_patch, abort_patch *)
(* and the for loop of main().                                             *)
(***************************************************************************)
PatchFrame ==
    UNCHANGED <<replayVars, runVars, extractVars, mineVars, matchVars, outVars, seqVars>>

\* result = None
NoResult == [tool |-> "none", returncode |-> 0, conflicts |-> {}]

\* "not result or (result and result.returncode)" of line 46.
NeedsFallback(result) ==
    result.tool = "none" \/ (result.tool # "none" /\ result.returncode # 0)

\* get_conflict_files(result): the files named by the "CONFLICT (content): Merge
\* conflict in" lines of result.stdout; none when result is None.
PatchConflictFiles(result) == IF result.tool = "none" THEN {} ELSE result.conflicts

\* Lines 55-57: git am --abort ends any session, git reset --hard restores the tree.
AbortPatch ==
    /\ amSession' = FALSE
    /\ tree' = "clean"

PatchInit ==
    /\ pm_pc = "loop"
    /\ pm_n \in 1..MaxPatches
    /\ pm_idx = 0
    /\ amSession = FALSE
    /\ tree = "clean"
    /\ committed = 0
    /\ amTimedOut = FALSE
    /\ attempts = 0
    /\ ap_result = NoResult
    /\ pm_crash = "none"

\* Lines 206-211: the next patch; a patch without a "From " line is skipped.
PmLoopHead ==
    /\ pm_pc = "loop"
    /\ IF pm_idx < pm_n
       THEN /\ pm_idx' = pm_idx + 1
            /\ \E commit_id \in BOOLEAN :
                pm_pc' = IF commit_id THEN "am" ELSE "loop"
            /\ amTimedOut' = FALSE
            /\ attempts' = 0
            /\ ap_result' = NoResult
       ELSE /\ pm_pc' = "done"
            /\ UNCHANGED <<pm_idx, amTimedOut, attempts, ap_result>>
    /\ UNCHANGED <<pm_n, amSession, tree, committed, pm_crash>>
    /\ PatchFrame

\* Lines 39-45: git am <patch> with timeout=10. While an earlier session is still
\* in progress git am refuses to start. A failed git am leaves its session in
\* progress; one killed by the timeout may have left a session and a partly written
\* tree, and abort_patch (lines 55-57: git am --abort, git reset --hard) follows.
GitAm ==
    /\ pm_pc = "am"
    /\ attempts' = attempts + 1
    /\ \E outcome \in (IF amSession THEN {"refused"} ELSE {"ok", "fail", "timeout"}) :
        CASE outcome = "ok" ->
                /\ committed' = committed + 1
                /\ ap_result' = [tool |-> "am", returncode |-> 0, conflicts |-> {}]
                /\ UNCHANGED <<amSession, tree, amTimedOut>>
          [] outcome = "fail" ->
                /\ amSession' = TRUE
                /\ \E c \in SUBSET Files :
                    ap_result' = [tool |-> "am", returncode |-> 1, conflicts |-> c]
                /\ UNCHANGED <<tree, committed, amTimedOut>>
          [] outcome = "refused" ->
                /\ ap_result' = [tool |-> "am", returncode |-> 128, conflicts |-> {}]
                /\ UNCHANGED <<amSession, tree, committed, amTimedOut>>
          [] outcome = "timeout" ->
                /\ amTimedOut' = TRUE
                /\ AbortPatch
                /\ ap_result' = NoResult
                /\ UNCHANGED committed
    /\ pm_pc' = IF NeedsFallback(ap_result') THEN "apply" ELSE "mine"
    /\ UNCHANGED <<pm_n, pm_idx, pm_crash>>
    /\ PatchFrame

\* Lines 46-53: the fallback git apply <patch> with timeout=10; it writes the patch
\* to the working tree and commits nothing. On timeout abort_patch follows and
\* result keeps its earlier value. apply_patch then returns result.
GitApply ==
    /\ pm_pc = "apply"
    /\ attempts' = attempts + 1
    /\ \E outcome \in {"ok", "fail", "timeout"} :
        CASE outcome = "ok" ->
                /\ tree' = "applied"
                /\ ap_result' = [tool |-> "apply", returncode |-> 0, conflicts |-> {}]
                /\ UNCHANGED amSession
          [] outcome = "fail" ->
                /\ ap_result' = [tool |-> "apply", returncode |-> 1, conflicts |-> {}]
                /\ UNCHANGED <<tree, amSession>>
          [] outcome = "timeout" ->
                /\ AbortPatch
                /\ UNCHANGED ap_result
    /\ pm_pc' = "mine"
    /\ UNCHANGED <<pm_n, pm_idx, committed, amTimedOut, pm_crash>>
    /\ PatchFrame

\* Lines 212-228: conflict_files of the result; with none the loop goes on. With
\* conflict files, get_resolved_contents iterates the value of get_marker_head_tail,
\* which has no return statement: the TypeError is caught nowhere and ends main().
Mine ==
    /\ pm_pc = "mine"
    /\ IF PatchConflictFiles(ap_result) = {}
       THEN pm_pc' = "loop" /\ pm_crash' = pm_crash
       ELSE pm_pc' = "crashed" /\ pm_crash' = "TypeError"
    /\ UNCHANGED <<pm_n, pm_idx, amSession, tree, committed, amTimedOut, attempts,
                   ap_result>>
    /\ PatchFrame

PatchNext == PmLoopHead \/ GitAm \/ GitApply \/ Mine

(***************************************************************************)
(* The conflict-marker scanners. A line is a sequence of tokens; the       *)
(* 7-character markers are tokens of their own.                            *)
(***************************************************************************)
start_marker == <<"<<<<<<<">>
end_marker == <<">>>>>>>">>

Text == <<"x">>
StartLine == <<"<<<<<<<", " ", "A">>
EndLine == <<">>>>>>>", " ", "B">>
BareStart == <<"<<<<<<<">>
MidStart == <<"x", "<<<<<<<">>
MidEnd == <<"x", ">>>>>>>">>

LineSet == {Text, StartLine, EndLine, BareStart, MidStart, MidEnd}

FileContents == UNION {[1..n -> LineSet] : n \in 0..MaxLen}

\* str.startswith(prefix)
StartsWith(line, prefix) ==
    Len(line) >= Len(prefix) /\ SubSeq(line, 1, Len(prefix)) = prefix

\* "marker in line"
Contains(line, marker) ==
    \E i \in 1..Len(line) :
        i + Len(marker) - 1 <= Len(line) /\ SubSeq(line, i, i + Len(marker) - 1) = marker

\* The truth value Python gives a variable holding None or a line index.
Truthy(v) == v # None /\ v # 0

\* merge_conflict_extractor_with_format_patch.py lines 72-76 (and
\* merge_conflict_extractor.py lines 35-39): the slice bounds of a section.
MarginPosition(lines, conflict_start, conflict_end, margin) ==
    <<Max(0, conflict_start - margin), Min(Len(lines), conflict_end + margin + 1)>>

\* get_conflict_sections, lines 82-89: the loop from line index i on. pairs keeps
\* the [conflict_start, i] of every section appended.
RECURSIVE FpScan(_, _, _, _, _)
FpScan(lines, margin, i, conflict_start, acc) ==
    IF i >= Len(lines) THEN acc
    ELSE IF StartsWith(At(lines, i), start_marker)
         THEN FpScan(lines, margin, i + 1, i, acc)
    ELSE IF Truthy(conflict_start) /\ StartsWith(At(lines, i), end_marker)
         THEN LET pos == MarginPosition(lines, conflict_start, i, margin)
              IN  FpScan(lines, margin, i + 1, None,
                         [sections |-> Append(acc.sections, Slice(lines, pos[1], pos[2])),
                          pairs |-> Append(acc.pairs, <<conflict_start, i>>),
                          ranges |-> Append(acc.ranges, pos)])
    ELSE FpScan(lines, margin, i + 1, conflict_start, acc)

get_conflict_sections(lines, margin) ==
    FpScan(lines, margin, 0, None, [sections |-> <<>>, pairs |-> <<>>, ranges |-> <<>>])

\* extract_merge_conflicts.py lines 33-45: the markers are looked for anywhere in
\* the line; an end marker always clears the pending start.
RECURSIVE EmcScan(_, _, _, _)
EmcScan(lines, i, start_line, conflict_sections) ==
    IF i >= Len(lines) THEN conflict_sections
    ELSE IF Contains(At(lines, i), start_marker)
         THEN EmcScan(lines, i + 1, i, conflict_sections)
    ELSE IF Contains(At(lines, i), end_marker)
         THEN EmcScan(lines, i + 1, None,
                      IF start_line # None
                      THEN Append(conflict_sections, <<start_line, i>>)
                      ELSE conflict_sections)
    ELSE EmcScan(lines, i + 1, start_line, conflict_sections)

extract_conflict_line_position_sections(lines) ==
    IF lines # <<>> THEN EmcScan(lines, 0, None, <<>>) ELSE <<>>

\* extract_merge_conflicts.py lines 54-62.
extract_conflict_sections(lines, margin_line_count) ==
    LET conflict_sections == extract_conflict_line_position_sections(lines)
    IN  [k \in 1..Len(conflict_sections) |->
            Slice(lines,
                  Max(conflict_sections[k][1] - margin_line_count, 0),
                  Min(conflict_sections[k][2] + margin_line_count + 1, Len(lines)))]

\* merge_conflict_solver.py lines 24-36: the markers followed by a space.
RECURSIVE SolverScan(_, _, _, _)
SolverScan(lines, i, conflict_start, conflicted_sections) ==
    IF i >= Len(lines) THEN conflicted_sections
    ELSE IF StartsWith(At(lines, i), start_marker \o <<" ">>)
         THEN SolverScan(lines, i + 1, i, conflicted_sections)
    ELSE IF StartsWith(At(lines, i), end_marker \o <<" ">>)
         THEN IF conflict_start # None
              THEN SolverScan(lines, i + 1, None,
                              Append(conflicted_sections, <<conflict_start, i>>))
              ELSE SolverScan(lines, i + 1, conflict_start, conflicted_sections)
    ELSE SolverScan(lines, i + 1, conflict_start, conflicted_sections)

get_conflicted_sections(lines) == SolverScan(lines, 0, None, <<>>)

(***************************************************************************)
(* get_match_position, get_marker_head_tail and get_resolved_contents      *)
(* (merge_conflict_extractor_with_format_patch.py lines 92-138, the same   *)
(* text as merge_conflict_extractor.py lines 55-101), and lines 226-228 of *)
(* main() for one conflict file.                                           *)
(***************************************************************************)
Ctx1 == <<"ctx1">>
Ctx2 == <<"ctx2">>
Left == <<"left">>
Right == <<"right">>
Separator == <<"=======">>
Resolved == <<"resolved">>

\* The file and the reference of the spec's end-to-end scenario A.
ScenarioFile == <<Ctx1, StartLine, Left, Separator, Right, EndLine, Ctx2>>
ScenarioReference == <<Ctx1, Resolved, Ctx2>>

MineFiles ==
    UNION {[1..n -> {Ctx1, StartLine, EndLine}] : n \in 0..MaxMineLen}
        \cup {ScenarioFile, <<Ctx1, StartLine, EndLine, Ctx2>>}

References ==
    UNION {[1..n -> {Ctx1, Resolved, Ctx2}] : n \in 0..MaxRefLen}
        \cup {<<Resolved, Ctx1, Resolved, Ctx2>>}

\* The value of a function that ends without a return statement.
PyNone == [is_none |-> TRUE]

\* Lines 112-115: the index of the last (instead of the first) line of source_lines
\* whose stripped text equals the stripped target line; None when there is none.
LastIndex(source, target_line) ==
    LET hits == {i \in 0..(Len(source) - 1) : Strip(At(source, i)) = Strip(target_line)}
    IN  IF hits = {} THEN None ELSE CHOOSE i \in hits : \A j \in hits : j <= i

\* Lines 112-115: the inner loop stops (break) at the first line of source_lines
\* whose stripped text equals the stripped target line.
RECURSIVE FirstIndexFrom(_, _, _)
FirstIndexFrom(source, target_line, i) ==
    IF i >= Len(source) THEN None
    ELSE IF Strip(At(source, i)) = Strip(target_line) THEN i
    ELSE FirstIndexFrom(source, target_line, i + 1)

FirstIndex(source, target_line) == FirstIndexFrom(source, target_line, 0)

\* Lines 108-117 with result = i in place of result = max(i, result).
RECURSIVE MatchLoopNoMax(_, _, _, _)
MatchLoopNoMax(source, targets, d, result) ==
    IF d >= Len(targets) THEN result
    ELSE LET i == FirstIndex(source, At(targets, d))
         IN  MatchLoopNoMax(source, targets, d + 1, IF i # None THEN i ELSE result)

\* Lines 108-117: result = max(i, result) over the target lines that match.
RECURSIVE MatchLoop(_, _, _, _)
MatchLoop(source, targets, d, result) ==
    IF d >= Len(targets) THEN result
    ELSE LET i == FirstIndex(source, At(targets, d))
         IN  MatchLoop(source, targets, d + 1, IF i # None THEN Max(i, result) ELSE result)

get_match_position(source, targets) == MatchLoop(source, targets, 0, 0)

\* Lines 97-105 for one section: header is the part before the (last) start marker
\* met before the end marker, footer the part after the end marker.
RECURSIVE HeadTailLoop(_, _, _)
HeadTailLoop(section, i, acc) ==
    IF i >= Len(section) THEN acc
    ELSE IF StartsWith(At(section, i), start_marker)
         THEN HeadTailLoop(section, i + 1,
                           [acc EXCEPT !.header = Slice(section, 0, i), !.has_header = TRUE])
    ELSE IF StartsWith(At(section, i), end_marker)
         THEN [acc EXCEPT !.footer = Slice(section, i + 1, Len(section)), !.has_footer = TRUE]
    ELSE HeadTailLoop(section, i + 1, acc)

\* The local results of get_marker_head_tail.
MarkerHeadTailResults(conflict_sections) ==
    [k \in 1..Len(conflict_sections) |->
        HeadTailLoop(conflict_sections[k], 0,
                     [header |-> <<>>, has_header |-> FALSE,
                      footer |-> <<>>, has_footer |-> FALSE])]

\* Lines 92-105: results is built and the function ends without returning it.
get_marker_head_tail(conflict_sections) ==
    LET results == MarkerHeadTailResults(conflict_sections)
    IN  PyNone

\* Lines 128-138 over a list of [header, footer]: a section with both positions
\* nonzero evaluates len(contents), a name that is not defined; the others get
\* "NOT FOUND".
RECURSIVE ResolveLoop(_, _, _)
ResolveLoop(reference, markers, k) ==
    IF k > Len(markers) THEN "none"
    ELSE LET start_pos == get_match_position(reference, markers[k].header)
             end_pos == get_match_position(reference, markers[k].footer)
         IN  IF ~markers[k].has_header \/ ~markers[k].has_footer THEN "TypeError"
             ELSE IF start_pos # 0 /\ end_pos # 0 THEN "NameError"
             ELSE ResolveLoop(reference, markers, k + 1)

\* Lines 119-138: the for loop iterates the value of get_marker_head_tail; the
\* function has no return statement either.
get_resolved_contents(reference, conflict_sections) ==
    LET conflict_section_markers == get_marker_head_tail(conflict_sections)
    IN  IF conflict_section_markers = PyNone
        THEN [raised |-> "TypeError", value |-> PyNone]
        ELSE [raised |-> ResolveLoop(reference, conflict_section_markers, 1),
              value |-> PyNone]

\* The lines get_match_position is called with: a text, the same text with
\* surrounding whitespace, and another text.
LineX == <<"x">>
LineXPadded == <<" ", "x", " ">>
LineY == <<"y">>
MatchLines == {LineX, LineXPadded, LineY}

MatchFrame ==
    UNCHANGED <<replayVars, runVars, patchVars, extractVars, mineVars, outVars, seqVars>>

MatchInit ==
    /\ mp_pc = "call"
    /\ source_lines \in UNION {[1..n -> MatchLines] : n \in 0..MaxSource}
    /\ target_lines \in UNION {[1..n -> MatchLines] : n \in 0..MaxTarget}
    /\ mp_result = 0

\* One call of get_match_position(source_lines, target_lines).
MpCall ==
    /\ mp_pc = "call"
    /\ mp_pc' = "returned"
    /\ mp_result' = get_match_position(source_lines, target_lines)
    /\ UNCHANGED <<source_lines, target_lines>>
    /\ MatchFrame

MatchNext == MpCall

(***************************************************************************)
(* get_patch_date (the second definition, lines 171-181, which replaces    *)
(* the one of lines 22-27) and the pooling and sorting of main(), lines    *)
(* 195-201. A patch is its mail header, with or without a Date line, and   *)
(* the lines after it (commit message and diff).                           *)
(***************************************************************************)
\* stamp 0 is a text strptime does not parse.
OtherLine == [date |-> FALSE, stamp |-> 0]
DateLine(t) == [date |-> TRUE, stamp |-> t]
PatchLines == {OtherLine} \cup {DateLine(t) : t \in 0..MaxStamp}

PatchContents ==
    [header : {<<>>} \cup {<<DateLine(t)>> : t \in 0..MaxStamp},
     body : UNION {[1..n -> PatchLines] : n \in 0..MaxBody}]

\* Path(patch_dir).glob('*.patch'): the files of a directory in some order.
GlobOrders(names) ==
    {o \in [1..Cardinality(names) -> names] : \A i, j \in DOMAIN o : i # j => o[i] # o[j]}

\* Lines 175-178: every Date line assigns result; a Date line strptime rejects
\* raises, which ends the loop (lines 179-180) with the result so far.
RECURSIVE PatchDateLoop(_, _, _)
PatchDateLoop(lines, i, result) ==
    IF i > Len(lines) THEN result
    ELSE IF lines[i].date
         THEN (IF lines[i].stamp = 0 THEN result
               ELSE PatchDateLoop(lines, i + 1, lines[i].stamp))
    ELSE PatchDateLoop(lines, i + 1, result)

get_patch_date(patch) == PatchDateLoop(patch.header \o patch.body, 1, None)

\* Lines 197-200 over the files of both directories in glob order.
RECURSIVE PoolLoop(_, _, _)
PoolLoop(files, i, acc) ==
    IF i > Len(files) THEN acc
    ELSE LET patch_date == get_patch_date(files[i])
         IN  PoolLoop(files, i + 1,
                      IF patch_date # None
                      THEN Append(acc, [file |-> files[i].file, date |-> patch_date])
                      ELSE acc)

\* sorted(..., key=patch_files.get) is stable: an entry goes after the entries
\* whose date is not larger.
RECURSIVE InsertByDate(_, _)
InsertByDate(sorted, e) ==
    IF sorted = <<>> THEN <<e>>
    ELSE IF Head(sorted).date <= e.date
         THEN <<Head(sorted)>> \o InsertByDate(Tail(sorted), e)
    ELSE <<e>> \o sorted

RECURSIVE SortedByDate(_, _, _)
SortedByDate(entries, i, acc) ==
    IF i > Len(entries) THEN acc
    ELSE SortedByDate(entries, i + 1, InsertByDate(acc, entries[i]))

UpstreamNames == {"u1", "u2"}
DownstreamNames == {"d1"}

SeqFrame ==
    UNCHANGED <<replayVars, runVars, patchVars, extractVars, mineVars, matchVars, outVars>>

SeqInit ==
    /\ sq_pc = "pool"
    /\ \E up \in GlobOrders(UpstreamNames), down \in GlobOrders(DownstreamNames),
          c \in [UpstreamNames \cup DownstreamNames -> PatchContents] :
            patch_dir = [k \in 1..(Len(up) + Len(down)) |->
                            LET name == IF k <= Len(up) THEN up[k] ELSE down[k - Len(up)]
                            IN  [file |-> name, header |-> c[name].header,
                                 body |-> c[name].body]]
    /\ patch_files = <<>>

\* Lines 195-200: patch_files maps each file that has a date to that date.
SqPool ==
    /\ sq_pc = "pool"
    /\ sq_pc' = "sort"
    /\ patch_files' = PoolLoop(patch_dir, 1, <<>>)
    /\ UNCHANGED patch_dir
    /\ SeqFrame

\* Line 201: the files in ascending order of their date.
SqSort ==
    /\ sq_pc = "sort"
    /\ sq_pc' = "sorted"
    /\ patch_files' = SortedByDate(patch_files, 1, <<>>)
    /\ UNCHANGED patch_dir
    /\ SeqFrame

SeqNext == SqPool \/ SqSort

(***************************************************************************)
(* output_conflict (merge_conflict_extractor_with_format_patch.py lines    *)
(* 140-148, merge_conflict_extractor.py lines 103-111). The dataset file   *)
(* is the sequence of the writes that reached it.                          *)
(***************************************************************************)
Written(w, text) == [w |-> w, text |-> text]

\* An element of the list get_resolved_contents builds: the literal "NOT FOUND"
\* (line 137) or a list of lines (line 135).
NotFound == [found |-> FALSE, lines |-> <<>>]
Found(lines) == [found |-> TRUE, lines |-> lines]

OutSections == {<<Ctx1, StartLine, EndLine>>, <<Ctx1, StartLine, Left, EndLine, Ctx2>>}
OutResolutions == {NotFound, Found(<<>>), Found(<<Resolved>>)}

\* Lines 142-148 from the k-th pair of the zip on: f.write(resolved_content) takes
\* a str only, so a list of lines raises TypeError after the four writes before it;
\* leaving the with block closes the file with what was written.
RECURSIVE WriteLoop(_, _, _, _)
WriteLoop(file, sections, items, k) ==
    IF k > Min(Len(sections), Len(items)) THEN [file |-> file, raised |-> FALSE]
    ELSE LET opened == file \o <<Written("conflict", <<>>),
                                  Written("lines", sections[k]),
                                  Written("fence", <<>>),
                                  Written("resolution", <<>>)>>
         IN  IF items[k].found
             THEN [file |-> opened, raised |-> TRUE]
             ELSE WriteLoop(opened \o <<Written("text", <<"NOT FOUND">>),
                                        Written("fence", <<>>)>>,
                            sections, items, k + 1)

\* Lines 140-148: zip(conflict_sections, None) raises before anything is written.
output_conflict(file, sections, resolved) ==
    IF resolved.is_none THEN [file |-> file, raised |-> TRUE]
    ELSE WriteLoop(file, sections, resolved.items, 1)

OutFrame ==
    UNCHANGED <<replayVars, runVars, patchVars, extractVars, mineVars, matchVars, seqVars>>

OutInit ==
    /\ out_pc = "ready"
    /\ out_file = <<>>
    /\ out_sections = <<>>
    /\ out_resolved = PyNone

\* One call of output_conflict on the sections of a file and a value for
\* resolved_contents: None or one element per section.
OutputConflict ==
    /\ out_pc = "ready"
    /\ Len(out_file) < MaxWrites
    /\ \E n \in 0..MaxOutSections :
        \E sections \in [1..n -> OutSections] :
        \E resolved \in {PyNone} \cup
                {[is_none |-> FALSE, items |-> items] : items \in [1..n -> OutResolutions]} :
            LET r == output_conflict(out_file, sections, resolved)
            IN  /\ out_sections' = sections
                /\ out_resolved' = resolved
                /\ out_file' = r.file
                /\ out_pc' = IF r.raised THEN "raised" ELSE "ready"
    /\ OutFrame

OutNext == OutputConflict

MineFrame ==
    UNCHANGED <<replayVars, runVars, patchVars, extractVars, matchVars, outVars, seqVars>>

MineInit ==
    /\ ms_pc = "extract"
    /\ ms_content \in MineFiles
    /\ ms_margin \in 0..MaxMargin
    /\ ms_reference = <<>>
    /\ ms_sections = <<>>
    /\ ms_pairs = <<>>
    /\ ms_ranges = <<>>
    /\ ms_raised = "none"
    /\ ms_resolved = PyNone

\* Line 226: conflict_sections = get_conflict_sections(conflict_file, ...).
MsExtract ==
    /\ ms_pc = "extract"
    /\ ms_pc' = "resolve"
    /\ ms_sections' = get_conflict_sections(ms_content, ms_margin).sections
    /\ ms_pairs' = get_conflict_sections(ms_content, ms_margin).pairs
    /\ ms_ranges' = get_conflict_sections(ms_content, ms_margin).ranges
    /\ UNCHANGED <<ms_content, ms_margin, ms_reference, ms_raised, ms_resolved>>
    /\ MineFrame

\* Line 227: resolved_contents = get_resolved_contents(...); the reference is what
\* git show prints for the file. Line 228 follows only when nothing was raised.
MsResolve ==
    /\ ms_pc = "resolve"
    /\ \E reference \in References :
        /\ ms_reference' = reference
        /\ LET r == get_resolved_contents(reference, ms_sections)
           IN  /\ ms_raised' = r.raised
               /\ ms_resolved' = r.value
               /\ ms_pc' = IF r.raised = "none" THEN "output" ELSE "crashed"
    /\ UNCHANGED <<ms_content, ms_margin, ms_sections, ms_pairs, ms_ranges>>
    /\ MineFrame

MineNext == MsExtract \/ MsResolve

ExtractFrame ==
    UNCHANGED <<replayVars, runVars, patchVars, mineVars, matchVars, outVars, seqVars>>

ExtractInit ==
    /\ ex_pc \in {"fp", "emc", "solver"}
    /\ content \in FileContents
    /\ margin_lines \in 0..MaxMargin
    /\ fp_sections = <<>>
    /\ fp_pairs = <<>>
    /\ emc_pairs = <<>>
    /\ emc_sections = <<>>
    /\ solver_pairs = <<>>

\* get_conflict_sections(conflict_file, repo_path, margin_lines) on the file.
ExtractFormatPatch ==
    /\ ex_pc = "fp"
    /\ ex_pc' = "fp_done"
    /\ fp_sections' = get_conflict_sections(content, margin_lines).sections
    /\ fp_pairs' = get_conflict_sections(content, margin_lines).pairs
    /\ UNCHANGED <<content, margin_lines, emc_pairs, emc_sections, solver_pairs>>
    /\ ExtractFrame

\* extract_conflict_sections(file_path, margin_line_count) on the file.
ExtractEmc ==
    /\ ex_pc = "emc"
    /\ ex_pc' = "emc_done"
    /\ emc_pairs' = extract_conflict_line_position_sections(content)
    /\ emc_sections' = extract_conflict_sections(content, margin_lines)
    /\ UNCHANGED <<content, margin_lines, fp_sections, fp_pairs, solver_pairs>>
    /\ ExtractFrame

\* get_conflicted_sections(merge_conflict_lines) on the file.
ExtractSolver ==
    /\ ex_pc = "solver"
    /\ ex_pc' = "solver_done"
    /\ solver_pairs' = get_conflicted_sections(content)
    /\ UNCHANGED <<content, margin_lines, fp_sections, fp_pairs, emc_pairs, emc_sections>>
    /\ ExtractFrame

ExtractNext == ExtractFormatPatch \/ ExtractEmc \/ ExtractSolver

(***************************************************************************)
(* The specifications. Each one runs one program; the state of the others  *)
(* stays as constructed.                                                   *)
(***************************************************************************)
ReplayIdle ==
    /\ head = "branch" /\ tempBranch = FALSE /\ merging = FALSE /\ unmerged = {}
    /\ wt = "clean" /\ stash = <<>> /\ pc = "idle" /\ nMerges = 0 /\ idx = 0
    /\ stash_needed = FALSE /\ created = FALSE /\ mergeOutcome = "none"
    /\ processed = {} /\ faults = {} /\ exc = "none" /\ reported = "none"
    /\ innerPrinted = FALSE /\ popRuns = 0 /\ coBranchRuns = 0 /\ poppedEntry = "none"

RunIdle ==
    /\ rg_pc = "unused" /\ rg_command = "none" /\ rg_combine = FALSE
    /\ rg_proc = [returncode |-> 0, stdout |-> <<>>, stderr |-> <<>>]
    /\ rg_result = NoOutput /\ rg_error = NoError /\ rg_runs = 0

PatchIdle ==
    /\ pm_pc = "idle" /\ pm_n = 0 /\ pm_idx = 0 /\ amSession = FALSE /\ tree = "clean"
    /\ committed = 0 /\ amTimedOut = FALSE /\ attempts = 0 /\ ap_result = NoResult
    /\ pm_crash = "none"

ExtractIdle ==
    /\ ex_pc = "idle" /\ content = <<>> /\ margin_lines = 0 /\ fp_sections = <<>>
    /\ fp_pairs = <<>> /\ emc_pairs = <<>> /\ emc_sections = <<>> /\ solver_pairs = <<>>

MineIdle ==
    /\ ms_pc = "idle" /\ ms_content = <<>> /\ ms_margin = 0 /\ ms_reference = <<>>
    /\ ms_sections = <<>> /\ ms_pairs = <<>> /\ ms_ranges = <<>> /\ ms_raised = "none"
    /\ ms_resolved = PyNone

MatchIdle ==
    /\ mp_pc = "idle" /\ source_lines = <<>> /\ target_lines = <<>> /\ mp_result = 0

OutIdle ==
    /\ out_pc = "idle" /\ out_file = <<>> /\ out_sections = <<>> /\ out_resolved = PyNone

SeqIdle ==
    /\ sq_pc = "idle" /\ patch_dir = <<>> /\ patch_files = <<>>

LaterIdle == MineIdle /\ MatchIdle /\ OutIdle /\ SeqIdle

Init == ReplayInit /\ RunIdle /\ PatchIdle /\ ExtractIdle /\ LaterIdle
Next == ReplayNext
Spec == Init /\ [][Next]_vars

RunSpecInit == RunInit /\ ReplayIdle /\ PatchIdle /\ ExtractIdle /\ LaterIdle
RunSpec == RunSpecInit /\ [][RunNext]_vars

PatchSpecInit == PatchInit /\ ReplayIdle /\ RunIdle /\ ExtractIdle /\ LaterIdle
PatchSpec == PatchSpecInit /\ [][PatchNext]_vars

MineSpecInit ==
    MineInit /\ ReplayIdle /\ RunIdle /\ PatchIdle /\ ExtractIdle /\ MatchIdle /\ OutIdle
        /\ SeqIdle
MineSpec == MineSpecInit /\ [][MineNext]_vars

MatchSpecInit ==
    MatchInit /\ ReplayIdle /\ RunIdle /\ PatchIdle /\ ExtractIdle /\ MineIdle /\ OutIdle
        /\ SeqIdle
MatchSpec == MatchSpecInit /\ [][MatchNext]_vars

SeqSpecInit ==
    SeqInit /\ ReplayIdle /\ RunIdle /\ PatchIdle /\ ExtractIdle /\ MineIdle /\ MatchIdle
        /\ OutIdle
SeqSpec == SeqSpecInit /\ [][SeqNext]_vars

OutSpecInit ==
    OutInit /\ ReplayIdle /\ RunIdle /\ PatchIdle /\ ExtractIdle /\ MineIdle /\ MatchIdle
        /\ SeqIdle
OutSpec == OutSpecInit /\ [][OutNext]_vars

ExtractSpecInit == ExtractInit /\ ReplayIdle /\ RunIdle /\ PatchIdle /\ LaterIdle
ExtractSpec == ExtractSpecInit /\ [][ExtractNext]_vars

(***************************************************************************)
(* Properties of the merge-replay run (Spec).                              *)
(***************************************************************************)
\* The steps C1 names as the ones that may fail between creating and deleting
\* temp-branch.
ScopedSteps == {"reset", "merge", "list", "read", "abort", "co_commit"}

\* C1: when an iteration that created temp-branch is left (the loop goes on, or an
\* exception leaves it for the outer finally), temp-branch is deleted and no merge is
\* in progress, whichever of the steps in between failed.
C1_TempBranchReleasedOnEveryExit ==
    (pc \in {"loop", "finally"} /\ created /\ faults \subseteq ScopedSteps)
        => (~tempBranch /\ ~merging)

\* C2: once the starting state is captured, the run ends with the repository checked
\* out on the original branch, whatever failed before (short of the checkout of that
\* branch itself failing); a failed stash pop does not leave it elsewhere.
C2_EndsOnOriginalBranch ==
    (pc = "done" /\ reported \notin {"capture", "co_branch"} /\ exc # "status")
        => head = "branch"

\* C3: when the trial merge ends in a content conflict, every unmerged path has been
\* read by the time the merge is aborted (unless listing or reading itself failed).
C3_ConflictedPathsProcessedBeforeAbort ==
    (pc = "abort" /\ mergeOutcome = "conflict" /\ faults \cap {"list", "read"} = {})
        => (unmerged # {} /\ processed = unmerged)

\* C6 (merge-replay mode): a failure while processing one merge point ends only that
\* item, so a run that entered the loop and whose final restore succeeded ends with
\* every merge point taken.
C6_LaterItemsStillProcessed ==
    (pc = "done" /\ idx >= 1 /\ reported \notin {"pop", "co_branch"}) => idx = nMerges

(***************************************************************************)
(* Properties of run_git_command (RunSpec).                                *)
(***************************************************************************)
\* C4: a call with combineStdErr that returns, for a command that produced error
\* text, returns the captured standard output with that error text appended.
C4_CombinedOutputHasErrorText ==
    (rg_pc = "returned" /\ rg_combine /\ Strip(rg_proc.stderr) # <<>>)
        => rg_result = Strip(rg_proc.stdout) \o Strip(rg_proc.stderr)

\* C5: a call runs the command exactly once; on a nonzero exit status it returns no
\* output and fails with an error carrying the command line and the captured
\* (stripped) error text; on exit status 0 it returns the captured (stripped)
\* standard output and does not fail.
C5_RunsOnceRaisesOrReturns ==
    (rg_pc \in {"returned", "raised"}) =>
        /\ rg_runs = 1
        /\ IF rg_proc.returncode # 0
           THEN /\ rg_pc = "raised"
                /\ rg_result = NoOutput
                /\ rg_error = [command |-> rg_command, text |-> Strip(rg_proc.stderr)]
           ELSE /\ rg_pc = "returned"
                /\ rg_error = NoError
                /\ rg_result = Strip(rg_proc.stdout)

\* A call that failed with exit status 1 and error text, and one that returned text.
C5_Witness ==
    /\ rg_pc = "raised"
    /\ rg_runs = 1
    /\ rg_proc.returncode = 1
    /\ rg_error.text # <<>>
    /\ rg_proc.stdout # <<>>

(***************************************************************************)
(* Properties of apply_patch (PatchSpec).                                  *)
(***************************************************************************)
\* C7: when git am timed out, apply_patch returns after that single attempt with no
\* am session in progress and the working tree hard-reset.
C7_TimeoutEndsTheAttempt ==
    (pm_pc = "mine" /\ amTimedOut)
        => (attempts = 1 /\ ~amSession /\ tree = "clean")

(***************************************************************************)
(* Properties of the scanners (ExtractSpec).                               *)
(***************************************************************************)
IsStart(line) == StartsWith(line, start_marker)
IsEnd(line) == StartsWith(line, end_marker)

\* The marker pairs of a file: a start-marker line and the first end-marker line
\* after it, with no other start marker in between.
ClosedPairs(lines) ==
    {p \in (0..(Len(lines) - 1)) \X (0..(Len(lines) - 1)) :
        /\ p[1] < p[2]
        /\ IsStart(At(lines, p[1]))
        /\ IsEnd(At(lines, p[2]))
        /\ \A j \in (p[1] + 1)..(p[2] - 1) :
              ~IsStart(At(lines, j)) /\ ~IsEnd(At(lines, j))}

\* The marker pairs in file order.
RECURSIVE ClosedPairsFrom(_, _)
ClosedPairsFrom(lines, s) ==
    IF s >= Len(lines) THEN <<>>
    ELSE LET here == {p \in ClosedPairs(lines) : p[1] = s}
         IN  (IF here = {} THEN <<>> ELSE <<CHOOSE p \in here : TRUE>>)
                \o ClosedPairsFrom(lines, s + 1)

ClosedPairSeq(lines) == ClosedPairsFrom(lines, 0)

\* C8: get_conflict_sections returns one section per marker pair, in file order,
\* wherever the start marker is (line index 0 included); an end marker without a
\* pending start yields nothing.
C8_OneSectionPerMarkerPair ==
    (ex_pc = "fp_done") =>
        /\ Len(fp_sections) = Cardinality(ClosedPairs(content))
        /\ fp_pairs = ClosedPairSeq(content)

\* Balanced markers: start and end markers alternate, beginning with a start and
\* ending with an end, whether a marker is looked for at the beginning of a line
\* ("prefix") or anywhere in it ("anywhere").
HasStart(mode, line) ==
    IF mode = "prefix" THEN StartsWith(line, start_marker) ELSE Contains(line, start_marker)
HasEnd(mode, line) ==
    IF mode = "prefix" THEN StartsWith(line, end_marker) ELSE Contains(line, end_marker)

RECURSIVE BalancedFrom(_, _, _, _)
BalancedFrom(mode, lines, i, open) ==
    IF i >= Len(lines) THEN ~open
    ELSE IF HasStart(mode, At(lines, i))
         THEN ~open /\ BalancedFrom(mode, lines, i + 1, TRUE)
    ELSE IF HasEnd(mode, At(lines, i))
         THEN open /\ BalancedFrom(mode, lines, i + 1, FALSE)
    ELSE BalancedFrom(mode, lines, i + 1, open)

BalancedMarkers(lines) ==
    BalancedFrom("prefix", lines, 0, FALSE) /\ BalancedFrom("anywhere", lines, 0, FALSE)

WellFormedPairs(lines, pairs) ==
    /\ \A k \in 1..Len(pairs) :
          /\ pairs[k][1] < pairs[k][2]
          /\ IsStart(At(lines, pairs[k][1]))
          /\ IsEnd(At(lines, pairs[k][2]))
    /\ \A k \in 1..(Len(pairs) - 1) : pairs[k][2] < pairs[k + 1][1]

\* C9: for a file with balanced markers the [start, end] pairs recorded by the
\* scanners of extract_merge_conflicts.py and merge_conflict_solver.py are strictly
\* ascending and non-overlapping, the line at start beginning with the start marker
\* and the line at end with the end marker.
C9_RecordedPairsAreMarkerPairs ==
    /\ (ex_pc = "emc_done" /\ BalancedMarkers(content))
          => WellFormedPairs(content, emc_pairs)
    /\ (ex_pc = "solver_done" /\ BalancedMarkers(content))
          => WellFormedPairs(content, solver_pairs)

\* Lines max(0, s-m) up to and including min(n-1, e+m) of each pair [s, e].
ExpectedSections(lines, pairs, m) ==
    [k \in 1..Len(pairs) |->
        Slice(lines, Max(0, pairs[k][1] - m), Min(Len(lines) - 1, pairs[k][2] + m) + 1)]

\* C10: the section extracted for every marker pair [s, e] is exactly the lines
\* max(0, s-m) .. min(n-1, e+m), a pair starting at line 0 included, by
\* get_conflict_sections and by extract_conflict_sections.
C10_SectionsAreClampedMargins ==
    /\ (ex_pc = "fp_done")
          => fp_sections = ExpectedSections(content, ClosedPairSeq(content), margin_lines)
    /\ (ex_pc = "emc_done")
          => emc_sections = ExpectedSections(content, emc_pairs, margin_lines)

(***************************************************************************)
(* Properties of the mining of one conflict file (MineSpec).               *)
(***************************************************************************)
\* The lines of section k outside its conflict body (marker to marker).
MarginLines(k) ==
    {i \in ms_ranges[k][1]..(ms_ranges[k][2] - 1) :
        i < ms_pairs[k][1] \/ i > ms_pairs[k][2]}

\* Every line of section k: margins and body.
SectionLines(k) == ms_ranges[k][1]..(ms_ranges[k][2] - 1)

\* C11: for any two sections extracted from the same file, the margin lines of one
\* include no line of the other's conflict body and no line of the other's margin.
C11_MarginsNeverOverlap ==
    (ms_pc # "extract") =>
        \A k, l \in 1..Len(ms_ranges) :
            k # l => MarginLines(k) \cap SectionLines(l) = {}

(***************************************************************************)
(* Properties of get_match_position (MatchSpec).                           *)
(***************************************************************************)
\* The positions of source_lines whose stripped text equals the stripped line.
Occurrences(line) ==
    {i \in 0..(Len(source_lines) - 1) : Strip(At(source_lines, i)) = Strip(line)}

SetMax(S) == CHOOSE i \in S : \A j \in S : j <= i
SetMin(S) == CHOOSE i \in S : \A j \in S : i <= j

\* C12 as stated: for a one-line target whose stripped text occurs at several
\* positions of the source lines, get_match_position returns the latest of them.
C12_ReturnsLatestOccurrence ==
    (mp_pc = "returned" /\ Len(target_lines) = 1
        /\ Cardinality(Occurrences(target_lines[1])) >= 2) =>
        mp_result = SetMax(Occurrences(target_lines[1]))

\* C12 amended: for a one-line target whose stripped text occurs at several
\* positions of the source lines, get_match_position returns the earliest of them.
C12_ReturnsEarliestOccurrence ==
    (mp_pc = "returned" /\ Len(target_lines) = 1
        /\ Cardinality(Occurrences(target_lines[1])) >= 2) =>
        mp_result = SetMin(Occurrences(target_lines[1]))

\* The spec's example: "x" at positions 2 and 5 only, a one-line target "x", and
\* the call returned 2.
C12_Witness ==
    /\ mp_pc = "returned"
    /\ target_lines = <<LineX>>
    /\ Occurrences(LineX) = {2, 5}
    /\ mp_result = 2

\* The target lines that equal some source line after stripping.
MatchingTargets ==
    {d \in 1..Len(target_lines) : Occurrences(target_lines[d]) # {}}

\* C13: get_match_position returns 0 when the target is empty and when no target
\* line matches; otherwise the maximum, over the target lines that match, of the
\* index of the first source line equal to the target line after stripping.
C13_MaxOfFirstMatches ==
    (mp_pc = "returned") =>
        /\ (target_lines = <<>> => mp_result = 0)
        /\ (MatchingTargets = {} => mp_result = 0)
        /\ (MatchingTargets # {} =>
                mp_result = SetMax({SetMin(Occurrences(target_lines[d])) :
                                        d \in MatchingTargets}))

\* Two target lines that both match, the first one later in the source than the
\* second one, and the call returned the first one's position.
C13_Witness ==
    /\ mp_pc = "returned"
    /\ Len(target_lines) = 2
    /\ MatchingTargets = {1, 2}
    /\ SetMin(Occurrences(target_lines[1])) > SetMin(Occurrences(target_lines[2]))
    /\ mp_result = SetMin(Occurrences(target_lines[1]))

(***************************************************************************)
(* Properties of the resolution step (MineSpec).                           *)
(***************************************************************************)
MsResolveDone == ms_pc \in {"output", "crashed"}

\* The positions of the head and tail margins of section k in the reference.
StartPos(k) ==
    get_match_position(ms_reference, MarkerHeadTailResults(ms_sections)[k].header)
EndPos(k) ==
    get_match_position(ms_reference, MarkerHeadTailResults(ms_sections)[k].footer)

\* A position is established when it is nonzero, or 0 with an empty margin.
PositionsEstablished(k) ==
    /\ StartPos(k) # 0 \/ MarkerHeadTailResults(ms_sections)[k].header = <<>>
    /\ EndPos(k) # 0 \/ MarkerHeadTailResults(ms_sections)[k].footer = <<>>

\* C14: for a section whose head and tail positions in the reference are both
\* established, the resolved lines recorded for it are reference[startPos+1 : endPos].
C14_ResolvedLinesAreTheSlice ==
    MsResolveDone =>
        \A k \in 1..Len(ms_sections) :
            PositionsEstablished(k) =>
                /\ ~ms_resolved.is_none
                /\ ms_resolved.items[k] = Slice(ms_reference, StartPos(k) + 1, EndPos(k))

\* C15: get_resolved_contents never raises and returns one result per section.
C15_ResolutionNeverRaises ==
    MsResolveDone =>
        /\ ms_raised = "none"
        /\ ~ms_resolved.is_none
        /\ Len(ms_resolved.items) = Len(ms_sections)

\* The extraction half of scenario A: one section of 7 lines.
ScenarioExtraction ==
    (ms_pc # "extract" /\ ms_content = ScenarioFile /\ ms_margin = 1) =>
        Len(ms_sections) = 1 /\ Len(ms_sections[1]) = 7

\* C16: scenario A yields exactly one section of 7 lines, and with the reference
\* ctx1, resolved, ctx2 the resolution recorded for that section is ['resolved'].
C16_ScenarioA ==
    /\ ScenarioExtraction
    /\ (MsResolveDone /\ ms_content = ScenarioFile /\ ms_margin = 1
            /\ ms_reference = ScenarioReference) =>
            /\ ms_raised = "none"
            /\ ~ms_resolved.is_none
            /\ ms_resolved.items = <<(<<Resolved>>)>>

(***************************************************************************)
(* Properties of the patch sequencing (SeqSpec).                           *)
(***************************************************************************)
\* The authorship timestamp of the mail header of a patch, None without one.
HeaderStamp(patch) ==
    IF patch.header # <<>> /\ patch.header[1].stamp # 0
    THEN patch.header[1].stamp ELSE None

PatchOf(name) == CHOOSE k \in 1..Len(patch_dir) : patch_dir[k].file = name

\* C17: the application order holds exactly the patches with a parseable header
\* Date, each once, in ascending order of that timestamp.
C17_OrderedByHeaderDate ==
    (sq_pc = "sorted") =>
        /\ {patch_files[i].file : i \in 1..Len(patch_files)}
               = {patch_dir[k].file : k \in {j \in 1..Len(patch_dir) :
                                                HeaderStamp(patch_dir[j]) # None}}
        /\ \A i, j \in 1..Len(patch_files) : i # j => patch_files[i].file # patch_files[j].file
        /\ \A i, j \in 1..Len(patch_files) :
               i < j => HeaderStamp(patch_dir[PatchOf(patch_files[i].file)])
                            <= HeaderStamp(patch_dir[PatchOf(patch_files[j].file)])

(***************************************************************************)
(* Properties of the dataset file (OutSpec).                               *)
(***************************************************************************)
\* The six writes from position i on are a conflict block followed by its
\* resolution block.
CompletePairAt(i) ==
    /\ out_file[i].w = "conflict"
    /\ out_file[i + 1].w = "lines"
    /\ out_file[i + 2].w = "fence"
    /\ out_file[i + 3].w = "resolution"
    /\ out_file[i + 4].w = "text"
    /\ out_file[i + 5].w = "fence"

\* C18: after any sequence of output_conflict calls, also one that fails midway,
\* the dataset file consists only of complete conflict/resolution pairs.
C18_OnlyCompleteRecords ==
    /\ Len(out_file) % 6 = 0
    /\ \A p \in 0..((Len(out_file) \div 6) - 1) : CompletePairAt(6 * p + 1)

(***************************************************************************)
(* Stash pairing of list-merge-conflict.py (Spec).                         *)
(***************************************************************************)
\* C19: the run pops a stash entry only if it pushed one itself, so an entry that
\* was in the stash before the run is never the one popped.
C19_PopsOnlyItsOwnStash ==
    poppedEntry \in {"none", "temp"}

(***************************************************************************)
(* Patch application sessions of the patch-sequence main (PatchSpec).      *)
(***************************************************************************)
\* C20: git am is never started for a patch while the am session of an earlier
\* patch is still in progress.
C20_NoSessionCarriedOver ==
    (pm_pc = "am") => ~amSession

====
